---- MODULE Spec2Model ----
(***************************************************************************)
(* The secret-store commands of src-tauri/src/lib.rs: set_secret,          *)
(* get_secret and delete_secret, each a thin wrapper over one entry of the *)
(* host credential store (the keyring crate).                              *)
(*                                                                         *)
(* An invocation runs in two host interactions: keyring::Entry::new        *)
(* resolves the (service, key) handle, then exactly one of set_password,   *)
(* get_password or delete_credential is issued; each host request is one   *)
(* atomic step.  Several invocations may be in flight at once.             *)
(*                                                                         *)
(* The host credential store is not code of this repository.  Its model    *)
(* (HostSet, HostGet, HostDelete, the error kinds and their messages) is   *)
(* taken from the specification's data model and external interfaces; a    *)
(* host request may also fail with an error kind chosen by the             *)
(* environment, and a failed request changes nothing.                      *)
(***************************************************************************)
EXTENDS Naturals, FiniteSets, Sequences, TLC

\* ---------------------------------------------------------------- bounds
\* Invocations started in one run.
MaxOps == 3

\* Two invocation slots: up to two commands are in flight at once.
Procs == {1, 2}
Services == {"jurisdesk", "other-app"}
Keys == {"api-token", "refresh-token"}
Values == {"abc123", "xyz789"}
Pairs == Services \X Keys
Ops == {"set", "get", "delete"}
NoArg == "n/a"

\* ------------------------------------------------- host credential store
\* keyring::Error kinds that the host can report.  NoEntry is the
\* distinguishable "no such entry" condition.
NewErrors == {"Invalid"}
CallFailures == {"NoStorageAccess"}

\* keyring::Error's Display text, used by err.to_string().
to_string(err) ==
    CASE err = "NoEntry" -> "No matching entry found in secure storage"
      [] err = "NoStorageAccess" -> "Couldn't access platform secure storage"
      [] err = "PlatformFailure" -> "Platform secure storage failure"
      [] err = "Invalid" -> "Attribute is invalid"
      [] err = "Ambiguous" -> "Entry is matched by multiple credentials"
      [] OTHER -> "Unknown keyring error"

\* The credentials stored under a handle.
Matching(st, h) == {c \in st : c.handle = h}

\* entry.set_password(value) when the host performs it: replaces whatever
\* was stored under the handle.
HostSet(st, h, v) == (st \ Matching(st, h)) \cup {[handle |-> h, secret |-> v]}

\* entry.get_password() when the host performs it: [out, secret].
HostGet(st, h) ==
    LET m == Matching(st, h) IN
    IF m = {} THEN [out |-> "NoEntry", secret |-> NoArg]
    ELSE IF Cardinality(m) > 1 THEN [out |-> "Ambiguous", secret |-> NoArg]
    ELSE [out |-> "Ok", secret |-> (CHOOSE c \in m : TRUE).secret]

\* entry.delete_credential() when the host performs it: [out, store].
HostDelete(st, h) ==
    IF Matching(st, h) = {} THEN [out |-> "NoEntry", store |-> st]
    ELSE [out |-> "Ok", store |-> st \ Matching(st, h)]

\* ------------------------------------------------------- command results
OkUnit == [tag |-> "Ok", opt |-> "Unit", val |-> NoArg, msg |-> ""]
OkSome(v) == [tag |-> "Ok", opt |-> "Some", val |-> v, msg |-> ""]
OkNone == [tag |-> "Ok", opt |-> "None", val |-> NoArg, msg |-> ""]
Err(m) == [tag |-> "Err", opt |-> "-", val |-> NoArg, msg |-> m]
NoResult == [tag |-> "none", opt |-> "-", val |-> NoArg, msg |-> ""]

\* keyring::Entry::new(&service, &key): the handle names the pair.
EntryNewServiceOnly(service, key) == <<service, "api-token">>
EntryNew(service, key) == <<service, key>>

\* `?` after Entry::new(...).map_err(|err| err.to_string()): an error
\* leaves the command at once, success continues to the store request.
TryNew(out) == IF out = "Ok" THEN "call" ELSE "ret"

\* The result a failed Entry::new gives the command.
NewErr(out) == Err(to_string(out))

\* entry.set_password(&value).map_err(|err| err.to_string())
SetSecretSwallow(out) == OkUnit
SetSecretResult(out) == IF out = "Ok" THEN OkUnit ELSE Err(to_string(out))

\* match entry.get_password() { Ok(secret) => Ok(Some(secret)),
\*   Err(NoEntry) => Ok(None), Err(err) => Err(err.to_string()) }
GetSecretStrict(out, secret) ==
    IF out = "Ok" THEN OkSome(secret) ELSE Err(to_string(out))
GetSecretLenient(out, secret) ==
    IF out = "Ok" THEN OkSome(secret) ELSE OkNone
GetSecretResult(out, secret) ==
    IF out = "Ok" THEN OkSome(secret)
    ELSE IF out = "NoEntry" THEN OkNone
    ELSE Err(to_string(out))

\* match entry.delete_credential() { Ok(_) | Err(NoEntry) => Ok(()),
\*   Err(err) => Err(err.to_string()) }
DeleteSecretStrict(out) ==
    IF out = "Ok" THEN OkUnit ELSE Err(to_string(out))
DeleteSecretResult(out) ==
    IF out = "Ok" \/ out = "NoEntry" THEN OkUnit ELSE Err(to_string(out))

\* The command returns after its single store request, whatever the
\* outcome: there is no loop and no second request in any handler.
AfterCallRetry(out) == IF out \in CallFailures THEN "call" ELSE "ret"
AfterCall(out) == "ret"

\* ------------------------------------------------------------------ state
VARIABLES
    store,       \* host credential store: set of [handle, secret]
    pc,          \* per invocation slot: "idle", "call" (handle resolved), "ret"
    args,        \* arguments of the running invocation
    entry,       \* handle resolved by Entry::new
    newOut,      \* outcome of Entry::new
    callOut,     \* outcome of the store request ("none" when not issued)
    result,      \* the command's Result
    newCalls,    \* Entry::new calls made by the running invocation
    storeCalls,  \* store requests issued by the running invocation
    seen,        \* history: last successful write on the pair, as of the request
    invoked,     \* invocations started
    returned,    \* results delivered to the caller
    passed,      \* history: <<service, key, value>> given to set_secret
    lastWrite    \* history: per pair, the last set/delete that returned Ok

procVars == <<pc, args, entry, newOut, callOut, result, newCalls, storeCalls, seen>>
histVars == <<passed, lastWrite>>
vars == <<store, procVars, invoked, returned, histVars>>

NoHandle == <<NoArg, NoArg>>
IdleArgs == [op |-> "none", service |-> NoArg, key |-> NoArg, value |-> NoArg]
NoWrite == [op |-> "none", value |-> NoArg, prev |-> "none"]
PairOf(a) == <<a.service, a.key>>

Init ==
    /\ store = {}
    /\ pc = [p \in Procs |-> "idle"]
    /\ args = [p \in Procs |-> IdleArgs]
    /\ entry = [p \in Procs |-> NoHandle]
    /\ newOut = [p \in Procs |-> "none"]
    /\ callOut = [p \in Procs |-> "none"]
    /\ result = [p \in Procs |-> NoResult]
    /\ newCalls = [p \in Procs |-> 0]
    /\ storeCalls = [p \in Procs |-> 0]
    /\ seen = [p \in Procs |-> NoWrite]
    /\ invoked = 0
    /\ returned = 0
    /\ passed = {}
    /\ lastWrite = [h \in Pairs |-> NoWrite]

\* ---------------------------------------------------------------- actions
\* The command is invoked and resolves its handle (first statement of each
\* handler).  Entry::new touches no stored credential.
Begin(p, a, out) ==
    /\ pc[p] = "idle"
    /\ invoked < MaxOps
    /\ invoked' = invoked + 1
    /\ args' = [args EXCEPT ![p] = a]
    /\ newCalls' = [newCalls EXCEPT ![p] = @ + 1]
    /\ newOut' = [newOut EXCEPT ![p] = out]
    /\ entry' = [entry EXCEPT ![p] = IF out = "Ok" THEN EntryNew(a.service, a.key) ELSE NoHandle]
    /\ result' = [result EXCEPT ![p] = IF out = "Ok" THEN NoResult ELSE NewErr(out)]
    /\ pc' = [pc EXCEPT ![p] = TryNew(out)]
    /\ UNCHANGED <<store, callOut, storeCalls, seen, returned, lastWrite>>

\* set_secret, line 5
set_secret_new(p, service, key, value, out) ==
    /\ Begin(p, [op |-> "set", service |-> service, key |-> key, value |-> value], out)
    /\ passed' = passed \cup {<<service, key, value>>}

\* get_secret, line 11
get_secret_new(p, service, key, out) ==
    /\ Begin(p, [op |-> "get", service |-> service, key |-> key, value |-> NoArg], out)
    /\ UNCHANGED passed

\* delete_secret, line 21
delete_secret_new(p, service, key, out) ==
    /\ Begin(p, [op |-> "delete", service |-> service, key |-> key, value |-> NoArg], out)
    /\ UNCHANGED passed

\* What every store request records about the invocation.
Issued(p, out, res) ==
    /\ callOut' = [callOut EXCEPT ![p] = out]
    /\ storeCalls' = [storeCalls EXCEPT ![p] = @ + 1]
    /\ result' = [result EXCEPT ![p] = res]
    /\ pc' = [pc EXCEPT ![p] = AfterCall(out)]
    /\ seen' = [seen EXCEPT ![p] = lastWrite[PairOf(args[p])]]
    /\ UNCHANGED <<args, entry, newOut, newCalls, invoked, returned, passed>>

\* History of a set/delete request on the pair of invocation p.
Wrote(p, res) ==
    lastWrite' = [lastWrite EXCEPT ![PairOf(args[p])] =
                     IF res.tag = "Ok"
                     THEN [op |-> args[p].op, value |-> args[p].value, prev |-> @.op]
                     ELSE @]

\* set_secret, line 6: one set_password request.  fail = "none" when the
\* host performs the request, else the error kind the host reports.
set_secret_keep_old(p, fail) ==
    /\ pc[p] = "call" /\ args[p].op = "set"
    /\ LET out == IF fail = "none" THEN "Ok" ELSE fail
           res == SetSecretResult(out) IN
       /\ store' = IF out = "Ok" /\ Matching(store, entry[p]) = {}
                   THEN HostSet(store, entry[p], args[p].value) ELSE store
       /\ Issued(p, out, res)
       /\ Wrote(p, res)
set_secret_key_as_value(p, fail) ==
    /\ pc[p] = "call" /\ args[p].op = "set"
    /\ LET out == IF fail = "none" THEN "Ok" ELSE fail
           res == SetSecretResult(out) IN
       /\ store' = IF out = "Ok" THEN HostSet(store, entry[p], args[p].key) ELSE store
       /\ Issued(p, out, res)
       /\ Wrote(p, res)
set_secret_write(p, fail) ==
    /\ pc[p] = "call" /\ args[p].op = "set"
    /\ LET out == IF fail = "none" THEN "Ok" ELSE fail
           res == SetSecretResult(out) IN
       /\ store' = IF out = "Ok" THEN HostSet(store, entry[p], args[p].value) ELSE store
       /\ Issued(p, out, res)
       /\ Wrote(p, res)

\* get_secret, lines 12-16: one get_password request.
get_secret_take(p, fail) ==
    /\ pc[p] = "call" /\ args[p].op = "get"
    /\ LET got == HostGet(store, entry[p])
           out == IF fail = "none" THEN got.out ELSE fail
           res == GetSecretResult(out, got.secret) IN
       /\ store' = IF out = "Ok" THEN HostDelete(store, entry[p]).store ELSE store
       /\ Issued(p, out, res)
       /\ UNCHANGED lastWrite
get_secret_read(p, fail) ==
    /\ pc[p] = "call" /\ args[p].op = "get"
    /\ LET got == HostGet(store, entry[p])
           out == IF fail = "none" THEN got.out ELSE fail
           res == GetSecretResult(out, got.secret) IN
       /\ UNCHANGED store
       /\ Issued(p, out, res)
       /\ UNCHANGED lastWrite

\* delete_secret, lines 22-25: one delete_credential request.
delete_secret_skip(p, fail) ==
    /\ pc[p] = "call" /\ args[p].op = "delete"
    /\ LET out == IF fail = "none" THEN "Ok" ELSE fail
           res == DeleteSecretResult(out) IN
       /\ UNCHANGED store
       /\ Issued(p, out, res)
       /\ Wrote(p, res)
delete_secret_delete(p, fail) ==
    /\ pc[p] = "call" /\ args[p].op = "delete"
    /\ LET del == HostDelete(store, entry[p])
           out == IF fail = "none" THEN del.out ELSE fail
           res == DeleteSecretResult(out) IN
       /\ store' = IF fail = "none" THEN del.store ELSE store
       /\ Issued(p, out, res)
       /\ Wrote(p, res)

\* The Result is handed to the caller and the invocation ends.
Return(p) ==
    /\ pc[p] = "ret"
    /\ returned' = returned + 1
    /\ pc' = [pc EXCEPT ![p] = "idle"]
    /\ args' = [args EXCEPT ![p] = IdleArgs]
    /\ entry' = [entry EXCEPT ![p] = NoHandle]
    /\ newOut' = [newOut EXCEPT ![p] = "none"]
    /\ callOut' = [callOut EXCEPT ![p] = "none"]
    /\ result' = [result EXCEPT ![p] = NoResult]
    /\ newCalls' = [newCalls EXCEPT ![p] = 0]
    /\ storeCalls' = [storeCalls EXCEPT ![p] = 0]
    /\ seen' = [seen EXCEPT ![p] = NoWrite]
    /\ UNCHANGED <<store, invoked, histVars>>

NewOutcomes == {"Ok"} \cup NewErrors
CallOutcomes == {"none"} \cup CallFailures

Next ==
    \/ \E p \in Procs, s \in Services, k \in Keys, v \in Values, out \in NewOutcomes :
          set_secret_new(p, s, k, v, out)
    \/ \E p \in Procs, s \in Services, k \in Keys, out \in NewOutcomes :
          get_secret_new(p, s, k, out)
    \/ \E p \in Procs, s \in Services, k \in Keys, out \in NewOutcomes :
          delete_secret_new(p, s, k, out)
    \/ \E p \in Procs, fail \in CallOutcomes : set_secret_write(p, fail)
    \/ \E p \in Procs, fail \in CallOutcomes : get_secret_read(p, fail)
    \/ \E p \in Procs, fail \in CallOutcomes : delete_secret_delete(p, fail)
    \/ \E p \in Procs : Return(p)

Spec == Init /\ [][Next]_vars

TypeOK ==
    /\ \A c \in store : c.handle \in Pairs /\ c.secret \in Values
    /\ \A p \in Procs : pc[p] \in {"idle", "call", "ret"}
    /\ invoked \in 0..MaxOps
    /\ returned \in 0..MaxOps

\* ----------------------------------------------------------- vocabulary
\* The secrets stored for a pair.
Lookup(st, pair) == {c.secret : c \in Matching(st, pair)}

\* The host reported a failure of its own (anything but not-found) to
\* invocation p.
HostFault(p) == newOut[p] \in NewErrors \/ callOut[p] \in CallFailures

\* Invocation p of command op has its Result and has not yet returned.
Finished(p, op) == pc[p] = "ret" /\ args[p].op = op

\* This step is the store request of invocation p.
Requests(p) == pc[p] = "call" /\ storeCalls'[p] = storeCalls[p] + 1

\* What get_secret is to answer for a store content.
Expected(st, pair) ==
    IF Lookup(st, pair) = {} THEN OkNone
    ELSE OkSome(CHOOSE v \in Lookup(st, pair) : TRUE)

\* ----------------------------------------------------------------- claims
\* C1: when the last set/delete that returned Ok on a pair is
\* set_secret(s, k, v), whether it created the entry or overwrote an earlier
\* value, a get_secret(s, k) that the host serves returns Ok(Some(v)).
C1_SetThenGet ==
    \A p \in Procs :
        (Finished(p, "get") /\ ~HostFault(p) /\ seen[p].op = "set")
            => result[p] = OkSome(seen[p].value)

C1_Witness ==
    \E p \in Procs :
        /\ Finished(p, "get") /\ ~HostFault(p)
        /\ seen[p].op = "set" /\ seen[p].prev = "set"
        /\ result[p] = OkSome("xyz789")
        /\ <<args[p].service, args[p].key, "abc123">> \in passed

\* C2: delete_secret on a pair with no stored entry (never set, or deleted
\* since) leaves the store unchanged and, unless the host reports a failure
\* of its own, returns Ok(()); so does a second delete in a row.
C2_DeleteAbsent ==
    [][\A p \in Procs :
          (Requests(p) /\ args[p].op = "delete"
              /\ lastWrite[PairOf(args[p])].op \in {"none", "delete"})
            => /\ store' = store
               /\ (callOut'[p] \notin CallFailures => result'[p] = OkUnit)]_vars

C2_Witness ==
    \E p \in Procs :
        /\ Finished(p, "delete") /\ callOut[p] = "NoEntry"
        /\ seen[p].op = "delete"
        /\ result[p] = OkUnit

\* C3: get_secret on a pair with no stored entry (never set, or deleted
\* since the last set) returns Ok(None) when the host serves the request,
\* and the host's not-found outcome never becomes an Err.
C3_GetAbsent ==
    \A p \in Procs :
        /\ (Finished(p, "get") /\ ~HostFault(p) /\ seen[p].op \in {"none", "delete"})
              => result[p] = OkNone
        /\ (Finished(p, "get") /\ callOut[p] = "NoEntry") => result[p].tag # "Err"

C3_Witness ==
    \E p \in Procs :
        /\ Finished(p, "get") /\ callOut[p] = "NoEntry"
        /\ seen[p].op = "none"
        /\ result[p] = OkNone

\* C4: after set_secret then delete_secret both returned Ok on a pair, a
\* get_secret the host serves returns Ok(None) and a further delete_secret
\* returns Ok(()).
C4_SetDeleteGet ==
    \A p \in Procs :
        (pc[p] = "ret" /\ ~HostFault(p) /\ seen[p].op = "delete" /\ seen[p].prev = "set")
            => /\ args[p].op = "get" => result[p] = OkNone
               /\ args[p].op = "delete" => result[p] = OkUnit

C4_Witness ==
    \E p \in Procs :
        /\ Finished(p, "get") /\ ~HostFault(p)
        /\ seen[p].op = "delete" /\ seen[p].prev = "set"
        /\ result[p] = OkNone

\* C5: when the host fails set_secret, at Entry::new or at set_password,
\* the caller gets Err with a non-empty message and the store is unchanged.
C5_SetFailure ==
    [][\A p \in Procs :
          (args'[p].op = "set" /\ pc'[p] # pc[p] /\ HostFault(p)')
            => /\ result'[p].tag = "Err"
               /\ result'[p].msg # ""
               /\ store' = store]_vars

C5_Witness ==
    \E p \in Procs :
        /\ Finished(p, "set") /\ callOut[p] \in CallFailures
        /\ result[p].tag = "Err" /\ result[p].msg # ""
        /\ Lookup(store, PairOf(args[p])) = {}

\* C6: for get_secret and delete_secret every host failure other than
\* not-found comes back as Err(string); only not-found is absorbed into Ok.
C6_ErrorsSurface ==
    \A p \in Procs :
        (pc[p] = "ret" /\ args[p].op \in {"get", "delete"})
            => /\ HostFault(p) => (result[p].tag = "Err" /\ result[p].msg # "")
               /\ result[p].tag = "Ok" => (newOut[p] = "Ok" /\ callOut[p] \in {"Ok", "NoEntry"})
               /\ callOut[p] = "NoEntry" => result[p].tag = "Ok"

C6_Witness ==
    \E p, q \in Procs :
        /\ Finished(p, "get") /\ callOut[p] \in CallFailures /\ result[p].tag = "Err"
        /\ Finished(q, "delete") /\ callOut[q] \in CallFailures /\ result[q].tag = "Err"

\* C7: no step of a get_secret invocation changes the store, whatever it
\* returns, and a served get_secret answers from the store content alone,
\* so a repeated get_secret with no write in between answers the same.
C7_GetNonDestructive ==
    [][\A p \in Procs :
          ((args[p].op = "get" \/ args'[p].op = "get") /\ pc'[p] # pc[p])
            => /\ store' = store
               /\ (Requests(p) /\ callOut'[p] \notin CallFailures)
                     => result'[p] = Expected(store', PairOf(args[p]))]_vars

C7_Witness ==
    \E p, q \in Procs :
        /\ p # q /\ PairOf(args[p]) = PairOf(args[q])
        /\ Finished(p, "get") /\ Finished(q, "get")
        /\ result[p].opt = "Some" /\ result[q] = result[p]
        /\ Lookup(store, PairOf(args[p])) = {result[p].val}

\* C8: an invocation calls Entry::new once and issues at most one store
\* request, none when Entry::new failed; its Result is returned once.
C8_NoRetry ==
    /\ \A p \in Procs :
        /\ newCalls[p] <= 1 /\ storeCalls[p] <= 1
        /\ newOut[p] \in NewErrors => (storeCalls[p] = 0 /\ pc[p] = "ret" /\ result[p].tag = "Err")
        /\ pc[p] = "call" => (newCalls[p] = 1 /\ storeCalls[p] = 0)
        /\ pc[p] = "ret" => (newCalls[p] = 1 /\ (newOut[p] = "Ok" => storeCalls[p] = 1))
        /\ callOut[p] \in CallFailures => (pc[p] = "ret" /\ result[p].tag = "Err")
    /\ returned + Cardinality({p \in Procs : pc[p] # "idle"}) = invoked

C8_Witness ==
    \E p, q \in Procs :
        /\ pc[p] = "ret" /\ callOut[p] \in CallFailures /\ storeCalls[p] = 1
        /\ pc[q] = "ret" /\ newOut[q] \in NewErrors /\ storeCalls[q] = 0
        /\ returned = 1

\* C9: under any interleaving, a get_secret that succeeds returns None or a
\* value that was passed to set_secret for that pair, and the stored value
\* of every pair is the one of the last set/delete the host applied to it.
C9_LastWriterWins ==
    /\ \A p \in Procs :
          (Finished(p, "get") /\ result[p].tag = "Ok")
            => \/ result[p] = OkNone
               \/ /\ result[p].opt = "Some"
                  /\ <<args[p].service, args[p].key, result[p].val>> \in passed
    /\ \A pair \in Pairs :
          Lookup(store, pair) =
              IF lastWrite[pair].op = "set" THEN {lastWrite[pair].value} ELSE {}

C9_Witness ==
    \E p, q \in Procs :
        /\ PairOf(args[p]) = PairOf(args[q])
        /\ Finished(p, "get") /\ Finished(q, "set")
        /\ result[q] = OkUnit /\ result[p].opt = "Some"
        /\ result[p].val # args[q].value
        /\ Lookup(store, PairOf(args[q])) = {args[q].value}

\* C10: every pair holds at most one value, and a step changes the stored
\* value of a pair only when it is the store request of a set_secret or
\* delete_secret invoked for exactly that pair.
C10_PairIsolation ==
    /\ [](\A pair \in Pairs : Cardinality(Lookup(store, pair)) <= 1)
    /\ [][\A pair \in Pairs :
            Lookup(store', pair) # Lookup(store, pair)
              => \E p \in Procs :
                    /\ Requests(p)
                    /\ args[p].op \in {"set", "delete"}
                    /\ PairOf(args[p]) = pair]_vars

C10_Witness ==
    /\ Lookup(store, <<"jurisdesk", "api-token">>) = {"abc123"}
    /\ Lookup(store, <<"jurisdesk", "refresh-token">>) = {"xyz789"}
    /\ Lookup(store, <<"other-app", "api-token">>) = {}
    /\ lastWrite[<<"other-app", "api-token">>].op = "delete"

====
